---- MODULE Spec2Model ----
(***************************************************************************)
(* Model of the configuration loader of package config (src/config.go).    *)
(*                                                                         *)
(* Go strings on which the code computes (AppID, AppSecret, LogLevel,      *)
(* paths, environment names) are sequences of one-character strings, so    *)
(* len(), strings.ToUpper, strings.Replacer and filepath.Ext are computed  *)
(* as the code computes them.  Strings the code only stores or compares    *)
(* (type names, error texts, service field values) are atomic.             *)
(***************************************************************************)
EXTENDS Integers, Sequences, FiniteSets, TLC

----------------------------------------------------------------------------
(* Bounds of the model. *)

\* number of calls that change the singleton (InitServiceConfig,
\* DefaultConfig, SetEnvPrefix)
MaxCalls == 2

\* number of distinct values uuid.NewString() returns before it repeats
NumUUIDs == 3

----------------------------------------------------------------------------
(* Program constants. *)

MinAppIDLen == 8

MinAppSecretLen == 12

Mask == <<"*", "*", "*", "*", "*", "*", "*", "*">>

\* slog.Level constants and their String() names
LevelDebug == <<"D", "E", "B", "U", "G">>

LevelInfo == <<"I", "N", "F", "O">>

LevelWarn == <<"W", "A", "R", "N">>

LevelError == <<"E", "R", "R", "O", "R">>

Warning == <<"W", "A", "R", "N", "I", "N", "G">>

SupportedExt == {<<"j", "s", "o", "n">>, <<"y", "a", "m", "l">>, <<"y", "m", "l">>}

----------------------------------------------------------------------------
(* String functions of the Go standard library, as far as the code uses them. *)

LowerLetters == <<"a", "b", "c", "d", "e", "f", "g", "h", "i", "j", "k", "l", "m",
                  "n", "o", "p", "q", "r", "s", "t", "u", "v", "w", "x", "y", "z">>

UpperLetters == <<"A", "B", "C", "D", "E", "F", "G", "H", "I", "J", "K", "L", "M",
                  "N", "O", "P", "Q", "R", "S", "T", "U", "V", "W", "X", "Y", "Z">>

UpperChar(c) ==
    IF \E i \in 1..26 : LowerLetters[i] = c
    THEN UpperLetters[CHOOSE i \in 1..26 : LowerLetters[i] = c]
    ELSE c

\* strings.ToUpper
ToUpper(s) == [i \in 1..Len(s) |-> UpperChar(s[i])]

\* strings.NewReplacer(".", "_", "-", "_").Replace
EnvKeyReplace(s) == [i \in 1..Len(s) |-> IF s[i] \in {".", "-"} THEN "_" ELSE s[i]]

\* filepath.Ext: the suffix from the last dot of the last path element
Ext(path) ==
    LET dots == {i \in 1..Len(path) :
                    /\ path[i] = "."
                    /\ \A j \in i..Len(path) : path[j] # "/"}
    IN  IF dots = {} THEN <<>>
        ELSE LET d == CHOOSE i \in dots : \A k \in dots : k <= i
             IN  SubSeq(path, d, Len(path))

\* strings.TrimPrefix(s, ".")
TrimDot(s) == IF Len(s) > 0 /\ s[1] = "." THEN Tail(s) ELSE s

\* contains(slice, item)
contains(slice, item) == item \in slice

----------------------------------------------------------------------------
(* Values of the model: strings, types, payloads, files, environment. *)

Digits == <<"1", "2", "3", "4", "5", "6", "7", "8", "9">>

\* uuid.NewString(): 36 characters, xxxxxxxx-xxxx-4xxx-xxxx-xxxxxxxxxxxx
UUIDString(n) ==
    [i \in 1..36 |-> IF i \in {9, 14, 19, 24} THEN "-"
                     ELSE IF i = 15 THEN "4"
                     ELSE IF i = 36 THEN Digits[n]
                     ELSE "0"]

\* uuid.NewString() when n values were drawn before: a value not drawn by
\* the NumUUIDs - 1 draws before it
NewString(n) == UUIDString((n % NumUUIDs) + 1)

EmptyString == <<>>

\* service payload types the callers use (src/helpers.go:101-109), and the
\* interface type any, which the constraint of GetServiceConfig[T any] admits
PtrCustom == "*config.customService"

ValCustom == "config.customService"

PtrAnother == "*config.anotherService"

AnyType == "interface {}"

MapType == "map[string]interface {}"

NilType == "<nil>"

\* type arguments of GetServiceConfig[T] and of DefaultConfig[T]
TypeParams == {PtrCustom, PtrAnother, AnyType}

DefaultTypes == {ValCustom, PtrAnother}

InterfaceTypes == {AnyType}

StructOf(t) ==
    IF t \in {PtrCustom, ValCustom} THEN "customService"
    ELSE IF t = PtrAnother THEN "anotherService"
    ELSE "none"

NoFields == [f \in {} |-> EmptyString]

\* the zero struct of a payload type
ZeroFields(t) ==
    IF StructOf(t) = "customService" THEN [username |-> EmptyString, password |-> EmptyString]
    ELSE IF StructOf(t) = "anotherService" THEN [port |-> <<"0">>, host |-> EmptyString]
    ELSE NoFields

\* a value of type any: its dynamic type, whether it is a nil pointer, its fields
NilInterface == [type |-> NilType, isNil |-> TRUE, fields |-> NoFields]

\* var zero T
Zero(t) ==
    IF t \in InterfaceTypes THEN NilInterface
    ELSE IF t \in {PtrCustom, PtrAnother} THEN [type |-> t, isNil |-> TRUE, fields |-> NoFields]
    ELSE [type |-> t, isNil |-> FALSE, fields |-> ZeroFields(t)]

\* the payload template callers pass to InitServiceConfig
CustomPayload ==
    [type |-> PtrCustom, isNil |-> FALSE,
     fields |-> [username |-> <<"d", "u">>, password |-> <<"d", "p">>]]

\* keys of the persisted layout, as written in the file
KeyAppID == <<"a", "p", "p", "I", "D">>

KeyAppSecret == <<"a", "p", "p", "S", "e", "c", "r", "e", "t">>

KeyLogLevel == <<"l", "o", "g", "g", "e", "r", ".", "l", "o", "g", "L", "e", "v", "e", "l">>

ServiceKey(f) ==
    CASE f = "username" -> <<"s", "e", "r", "v", "i", "c", "e", ".", "u", "s", "e", "r", "n", "a", "m", "e">>
      [] f = "password" -> <<"s", "e", "r", "v", "i", "c", "e", ".", "p", "a", "s", "s", "w", "o", "r", "d">>
      [] f = "port" -> <<"s", "e", "r", "v", "i", "c", "e", ".", "p", "o", "r", "t">>
      [] f = "host" -> <<"s", "e", "r", "v", "i", "c", "e", ".", "h", "o", "s", "t">>

\* a file: its syntax and, per key, the set holding its value ({} = key absent)
NoService == [kind |-> "absent", fields |-> NoFields]

NullService == [kind |-> "null", fields |-> NoFields]

MapService(fields) == [kind |-> "map", fields |-> fields]

NoFile == [format |-> "none", appID |-> {}, appSecret |-> {}, logLevel |-> {}, service |-> NoService]

File(format, id, secret, level, svc) ==
    [format |-> format, appID |-> id, appSecret |-> secret, logLevel |-> level, service |-> svc]

ID7 == <<"a", "p", "p", "i", "d", "1", "2">>

ID8 == <<"a", "p", "p", "i", "d", "1", "2", "3">>

SEC11 == <<"s", "e", "c", "r", "e", "t", "1", "2", "3", "4", "5">>

SEC12 == <<"s", "e", "c", "r", "e", "t", "1", "2", "3", "4", "5", "6">>

TestService == MapService([username |-> <<"t", "u">>])

ValidFile(level) == File("yaml", {ID8}, {SEC12}, {level}, TestService)

\* paths
PathOk == <<"/", "o", "k", ".", "y", "a", "m", "l">>

PathID7 == <<"/", "i", "7", ".", "y", "a", "m", "l">>

PathID0 == <<"/", "i", "0", ".", "y", "a", "m", "l">>

PathSec11 == <<"/", "s", "1", "1", ".", "y", "m", "l">>

PathSec0 == <<"/", "s", "0", ".", "y", "m", "l">>

PathMixed == <<"/", "l", "2", ".", "y", "a", "m", "l">>

PathWarning == <<"/", "l", "3", ".", "y", "a", "m", "l">>

PathTrace == <<"/", "l", "5", ".", "y", "a", "m", "l">>

PathNoLevel == <<"/", "l", "6", ".", "y", "a", "m", "l">>

PathSvcOnly == <<"/", "s", "v", ".", "y", "a", "m", "l">>

PathScalar == <<"/", "s", "c", ".", "y", "a", "m", "l">>

PathBad == <<"/", "b", "a", "d", ".", "y", "a", "m", "l">>

PathJSON == <<"/", "o", "k", ".", "j", "s", "o", "n">>

PathTxt == <<"/", "c", ".", "t", "x", "t">>

\* a well-formed file under an extension that differs from yaml in case only
PathUpper == <<"/", "c", ".", "Y", "A", "M", "L">>

PathNewYaml == <<"/", "n", ".", "y", "a", "m", "l">>

PathNewJSON == <<"/", "n", ".", "j", "s", "o", "n">>

PathNewTxt == <<"/", "n", ".", "t", "x", "t">>

PathNoDir == <<"/", "x", "/", "n", ".", "y", "a", "m", "l">>

\* the files the tests put on disk before calling the library
TestData ==
    (PathOk :> ValidFile(LevelDebug))
    @@ (PathID7 :> File("yaml", {ID7}, {SEC12}, {LevelDebug}, TestService))
    @@ (PathID0 :> File("yaml", {EmptyString}, {SEC12}, {LevelDebug}, TestService))
    @@ (PathSec11 :> File("yaml", {ID8}, {SEC11}, {LevelDebug}, TestService))
    @@ (PathSec0 :> File("yaml", {ID8}, {EmptyString}, {<<"e", "r", "r", "o", "r">>}, TestService))
    @@ (PathMixed :> ValidFile(<<"W", "a", "r", "n">>))
    @@ (PathWarning :> ValidFile(<<"w", "a", "r", "n", "i", "n", "g">>))
    @@ (PathTrace :> ValidFile(<<"T", "R", "A", "C", "E">>))
    @@ (PathNoLevel :> ValidFile(EmptyString))
    @@ (PathSvcOnly :> File("yaml", {}, {}, {}, MapService([username |-> <<"t", "u">>, password |-> <<"t", "p">>])))
    @@ (PathScalar :> File("yaml", {ID8}, {SEC12}, {LevelDebug}, [kind |-> "scalar", fields |-> [value |-> <<"5">>]]))
    @@ (PathBad :> File("text", {}, {}, {}, NoService))
    @@ (PathJSON :> File("json", {ID8}, {SEC12}, {<<"i", "n", "f", "o">>}, TestService))
    @@ (PathTxt :> File("text", {}, {}, {}, NoService))
    @@ (PathUpper :> ValidFile(LevelInfo))

NewPaths == {PathNewYaml, PathNewJSON, PathNewTxt, PathNoDir}

Paths == DOMAIN TestData \cup NewPaths

\* arguments InitServiceConfig is called with: the payload template on every
\* path, no payload on some
InitInputs ==
    {<<CustomPayload, p>> : p \in Paths}
    \cup {<<NilInterface, p>> : p \in {PathOk, PathScalar, PathNewYaml}}

\* paths DefaultConfig is called with
DefaultPaths == {PathNewYaml, PathNewJSON, PathNoDir}

\* paths whose directory does not exist: os.Create fails there
NoDirPaths == {PathNoDir}

\* the process environment: a set of <<name, value>> pairs; one variable
\* per prefix, the first a valid level, the second an AppID that is too short
EnvPrefixTest == <<"T", "E", "S", "T">>

EnvPrefixApp == <<"A", "P", "P">>

EnvPrefixes == {EnvPrefixTest, EnvPrefixApp}

Environments ==
    { { <<<<"T", "E", "S", "T", "_", "L", "O", "G", "G", "E", "R", "_", "L", "O", "G", "L", "E", "V", "E", "L">>, LevelInfo>>,
        <<<<"A", "P", "P", "_", "A", "P", "P", "I", "D">>, ID7>> } }

----------------------------------------------------------------------------
(* Errors: the chain of messages from the outermost wrapper to the cause;  *)
(* the empty chain is the nil error.                                       *)

NilError == <<>>

Wrap(msg, err) == <<msg>> \o err

ErrContains(err, msg) == \E i \in 1..Len(err) : err[i] = msg

----------------------------------------------------------------------------
(* Validation and defaults. *)

IsKnownLevel(up) == up \in {LevelDebug, LevelInfo, LevelWarn, Warning, LevelError}

\* the slog.Level chosen by the switch on the upper-cased level
SinkLevel(up) == IF up = Warning THEN LevelWarn ELSE up

\* defaultValues with its thresholds and the string it switches on as
\* parameters: the form the faulty variants below are written in
defaultValuesWith(c, sink, u1, u2, minID, minSecret, switched(_)) ==
    LET c1 == IF c.AppID = EmptyString THEN [c EXCEPT !.AppID = u1] ELSE c
        c2 == IF c1.AppSecret = EmptyString THEN [c1 EXCEPT !.AppSecret = u2] ELSE c1
        up == switched(c2.Logger.LogLevel)
    IN  IF c.AppID # EmptyString /\ Len(c.AppID) < minID
        THEN [cfg |-> c, slog |-> sink, err |-> <<"invalid AppID">>]
        ELSE IF c1.AppSecret # EmptyString /\ Len(c1.AppSecret) < minSecret
        THEN [cfg |-> c1, slog |-> sink, err |-> <<"invalid AppSecret">>]
        ELSE IF ~IsKnownLevel(up)
        THEN [cfg |-> c2, slog |-> sink, err |-> <<"unknown log level">>]
        ELSE [cfg |-> c2, slog |-> SinkLevel(up), err |-> NilError]

SameString(s) == s

\* faulty variant: the switch compares the level as written (no ToUpper)
defaultValuesExactCase(c, sink, u1, u2) ==
    defaultValuesWith(c, sink, u1, u2, MinAppIDLen, MinAppSecretLen, SameString)

\* faulty variant: AppID compared with <= instead of <
defaultValuesOffByOne(c, sink, u1, u2) ==
    defaultValuesWith(c, sink, u1, u2, MinAppIDLen + 1, MinAppSecretLen, ToUpper)

\* faulty variant: AppSecret checked against the AppID minimum
defaultValuesWrongMinimum(c, sink, u1, u2) ==
    defaultValuesWith(c, sink, u1, u2, MinAppIDLen, MinAppIDLen, ToUpper)

\* faulty variant: the upper-cased level is written back to the singleton
defaultValuesNormalizing(c, sink, u1, u2) ==
    LET r == defaultValuesWith(c, sink, u1, u2, MinAppIDLen, MinAppSecretLen, ToUpper)
    IN  IF r.err = NilError
        THEN [r EXCEPT !.cfg.Logger.LogLevel = ToUpper(@)]
        ELSE r

\* faulty variant: the handler is installed before the level is checked,
\* with the zero HandlerOptions (level INFO) when the level is unknown
defaultValuesSinkAlways(c, sink, u1, u2) ==
    LET r == defaultValuesWith(c, sink, u1, u2, MinAppIDLen, MinAppSecretLen, ToUpper)
    IN  IF r.err = <<"unknown log level">> THEN [r EXCEPT !.slog = LevelInfo] ELSE r

\* (c *Config) defaultValues(): the config and the sink threshold it leaves,
\* and the error it returns; u1 and u2 are the values of uuid.NewString()
defaultValues(c, sink, u1, u2) ==
    LET c1 == IF c.AppID = EmptyString THEN [c EXCEPT !.AppID = u1] ELSE c
        c2 == IF c1.AppSecret = EmptyString THEN [c1 EXCEPT !.AppSecret = u2] ELSE c1
        up == ToUpper(c2.Logger.LogLevel)
    IN  IF c.AppID # EmptyString /\ Len(c.AppID) < MinAppIDLen
        THEN [cfg |-> c, slog |-> sink, err |-> <<"invalid AppID">>]
        ELSE IF c1.AppSecret # EmptyString /\ Len(c1.AppSecret) < MinAppSecretLen
        THEN [cfg |-> c1, slog |-> sink, err |-> <<"invalid AppSecret">>]
        ELSE IF ~IsKnownLevel(up)
        THEN [cfg |-> c2, slog |-> sink, err |-> <<"unknown log level">>]
        ELSE [cfg |-> c2, slog |-> SinkLevel(up), err |-> NilError]

----------------------------------------------------------------------------
(* Files. *)

\* filepath.Abs for a working directory of "/"
Abs(path) == IF Len(path) > 0 /\ path[1] = "/" THEN path ELSE <<"/">> \o path

\* the file system a call sees: the test data and the files written since
Disk(written) == written @@ TestData

\* exists(fs, path)
exists(files, path) == Disk(files)[path].format # "none"

\* yaml encoding of the Service field
EncodeService(svc) ==
    IF svc.isNil THEN NullService
    ELSE IF svc.type = "int" THEN [kind |-> "scalar", fields |-> svc.fields]
    ELSE MapService(svc.fields)

\* yaml.NewEncoder(file).Encode(globalConfig): the exported, tagged fields
Encode(c) ==
    File("yaml", {c.AppID}, {c.AppSecret}, {c.Logger.LogLevel}, EncodeService(c.Service))

\* writeToFile(cfgFile): os.Create, then the YAML document of the singleton
writeToFile(c, files, cfgFile) ==
    IF cfgFile \in NoDirPaths
    THEN [fs |-> files, err |-> <<"no such file or directory">>]
    ELSE [fs |-> (Abs(cfgFile) :> Encode(c)) @@ files, err |-> NilError]

\* faulty variant: the file is written before the singleton is validated
defaultConfigWritingFirst(c, sink, files, configPath, u1, u2) ==
    LET d == defaultValues(c, sink, u1, u2)
        w == writeToFile(d.cfg, files, configPath)
    IN  IF d.err # NilError
        THEN [cfg |-> d.cfg, slog |-> d.slog, fs |-> w.fs, err |-> d.err]
        ELSE [cfg |-> d.cfg, slog |-> d.slog, fs |-> w.fs, err |-> w.err]

\* defaultConfig(configPath)
defaultConfig(c, sink, files, configPath, u1, u2) ==
    LET d == defaultValues(c, sink, u1, u2)
        w == writeToFile(d.cfg, files, configPath)
    IN  IF d.err # NilError
        THEN [cfg |-> d.cfg, slog |-> d.slog, fs |-> files, err |-> d.err]
        ELSE [cfg |-> d.cfg, slog |-> d.slog, fs |-> w.fs, err |-> w.err]

\* faulty variant: the extension is compared without regard to case
getConfigFileAnyCase(c) ==
    LET ext == TrimDot(Ext(c.ConfigFile))
    IN  IF ~contains({ToUpper(e) : e \in SupportedExt}, ToUpper(ext))
        THEN [filename |-> EmptyString, ext |-> EmptyString,
              err |-> <<"unsupported config file extension">>]
        ELSE [filename |-> c.ConfigFile, ext |-> ext, err |-> NilError]

\* (c *Config) getConfigFile()
getConfigFile(c) ==
    LET ext == TrimDot(Ext(c.ConfigFile))
    IN  IF ~contains(SupportedExt, ext)
        THEN [filename |-> EmptyString, ext |-> EmptyString,
              err |-> <<"unsupported config file extension">>]
        ELSE [filename |-> c.ConfigFile, ext |-> ext, err |-> NilError]

----------------------------------------------------------------------------
(* The configuration engine (internal/viper) and its decoder: parsing by   *)
(* type, environment lookup for the keys of the file, decoding of the      *)
(* settings into the singleton.                                            *)

\* os.LookupEnv(name): the set holding the value, {} when undefined
LookupEnv(environ, name) == {p[2] : p \in {e \in environ : e[1] = name}}

\* viper.mergeWithEnvPrefix(key)
mergeWithEnvPrefix(vp, key) ==
    IF vp.envPrefix # EmptyString
    THEN ToUpper(vp.envPrefix \o <<"_">> \o key)
    ELSE ToUpper(key)

\* viper.getEnv(key): an empty value counts as undefined
getEnv(vp, environ, key) ==
    LET name == IF vp.envKeyReplacer THEN EnvKeyReplace(key) ELSE key
    IN  {x \in LookupEnv(environ, name) : x # EmptyString}

\* viper.Get(key) for a key of the file: the environment wins over the file
Find(vp, environ, key, fileValue) ==
    IF fileValue = {} THEN {}
    ELSE LET e == getEnv(vp, environ, mergeWithEnvPrefix(vp, key))
         IN  IF e # {} THEN e ELSE fileValue

\* viper.ReadConfig(bytes): JSON text also parses as YAML, not the reverse
ReadConfig(ext, file) ==
    IF ext = <<"j", "s", "o", "n">>
    THEN (IF file.format = "json" THEN NilError ELSE <<"reading config content">>)
    ELSE (IF file.format \in {"yaml", "json"} THEN NilError ELSE <<"reading config content">>)

FindField(vp, environ, f, v) ==
    LET e == Find(vp, environ, ServiceKey(f), {v}) IN CHOOSE x \in e : TRUE

\* viper.AllSettings(): the keys of the file with their effective values
AllSettings(vp, environ, file) ==
    [appID |-> Find(vp, environ, KeyAppID, file.appID),
     appSecret |-> Find(vp, environ, KeyAppSecret, file.appSecret),
     logLevel |-> Find(vp, environ, KeyLogLevel, file.logLevel),
     service |->
        IF file.service.kind = "map"
        THEN MapService([f \in DOMAIN file.service.fields |->
                            FindField(vp, environ, f, file.service.fields[f])])
        ELSE file.service]

\* decoding of the service section into the value the Service field holds
DecodeService(svc, section) ==
    IF section.kind \in {"absent", "null"} THEN [svc |-> svc, err |-> NilError]
    ELSE IF svc.type = NilType
    THEN [svc |-> [type |-> IF section.kind = "map" THEN MapType ELSE "int",
                   isNil |-> FALSE, fields |-> section.fields],
          err |-> NilError]
    ELSE IF section.kind = "scalar"
    THEN [svc |-> svc, err |-> <<"expected a map">>]
    ELSE LET base == IF svc.isNil THEN ZeroFields(svc.type) ELSE svc.fields
         IN  [svc |-> [type |-> svc.type, isNil |-> FALSE,
                       fields |-> [f \in DOMAIN base |->
                                     IF f \in DOMAIN section.fields
                                     THEN section.fields[f] ELSE base[f]]],
              err |-> NilError]

SetIfPresent(old, value) == IF value = {} THEN old ELSE CHOOSE x \in value : TRUE

\* viper.Unmarshal(globalConfig): keys that are present overwrite their
\* field, absent keys leave it; every field that decodes is stored even
\* when another one fails
Unmarshal(c, settings) ==
    LET d == DecodeService(c.Service, settings.service)
    IN  [cfg |-> [c EXCEPT !.AppID = SetIfPresent(@, settings.appID),
                           !.AppSecret = SetIfPresent(@, settings.appSecret),
                           !.Logger.LogLevel = SetIfPresent(@, settings.logLevel),
                           !.Service = d.svc],
         err |-> d.err]

\* faulty variant: the prefix is set but not the key replacer
readInConfigNoReplacer(c, vp, files, environ) ==
    LET g == getConfigFile(c)
        file == Disk(files)[g.filename]
        vp1 == IF c.envPrefix # EmptyString
               THEN [envPrefix |-> c.envPrefix, envKeyReplacer |-> FALSE]
               ELSE vp
        settings == AllSettings(vp1, environ, file)
        u == Unmarshal(c, settings)
    IN  IF g.err # NilError
        THEN [cfg |-> c, viper |-> vp, err |-> g.err, settings |-> AllSettings(vp, environ, NoFile)]
        ELSE IF ~exists(files, g.filename)
        THEN [cfg |-> c, viper |-> vp, err |-> <<"no such file or directory">>,
              settings |-> AllSettings(vp, environ, NoFile)]
        ELSE IF ReadConfig(g.ext, file) # NilError
        THEN [cfg |-> c, viper |-> vp1, err |-> ReadConfig(g.ext, file),
              settings |-> AllSettings(vp, environ, NoFile)]
        ELSE IF u.err # NilError
        THEN [cfg |-> u.cfg, viper |-> vp1, err |-> Wrap("unmarshalling config", u.err),
              settings |-> settings]
        ELSE [cfg |-> u.cfg, viper |-> vp1, err |-> NilError, settings |-> settings]

\* faulty variant: the base fields are reset before the file is merged in
readInConfigResetting(c, vp, files, environ) ==
    LET g == getConfigFile(c)
        file == Disk(files)[g.filename]
        vp1 == IF c.envPrefix # EmptyString
               THEN [envPrefix |-> c.envPrefix, envKeyReplacer |-> TRUE]
               ELSE vp
        settings == AllSettings(vp1, environ, file)
        u == Unmarshal([c EXCEPT !.AppID = EmptyString,
                                 !.AppSecret = EmptyString,
                                 !.Logger.LogLevel = LevelDebug], settings)
    IN  IF g.err # NilError
        THEN [cfg |-> c, viper |-> vp, err |-> g.err, settings |-> AllSettings(vp, environ, NoFile)]
        ELSE IF ~exists(files, g.filename)
        THEN [cfg |-> c, viper |-> vp, err |-> <<"no such file or directory">>,
              settings |-> AllSettings(vp, environ, NoFile)]
        ELSE IF ReadConfig(g.ext, file) # NilError
        THEN [cfg |-> c, viper |-> vp1, err |-> ReadConfig(g.ext, file),
              settings |-> AllSettings(vp, environ, NoFile)]
        ELSE IF u.err # NilError
        THEN [cfg |-> u.cfg, viper |-> vp1, err |-> Wrap("unmarshalling config", u.err),
              settings |-> settings]
        ELSE [cfg |-> u.cfg, viper |-> vp1, err |-> NilError, settings |-> settings]

\* (c *Config) readInConfig(afs)
readInConfig(c, vp, files, environ) ==
    LET g == getConfigFile(c)
        file == Disk(files)[g.filename]
        vp1 == IF c.envPrefix # EmptyString
               THEN [envPrefix |-> c.envPrefix, envKeyReplacer |-> TRUE]
               ELSE vp
        settings == AllSettings(vp1, environ, file)
        u == Unmarshal(c, settings)
    IN  IF g.err # NilError
        THEN [cfg |-> c, viper |-> vp, err |-> g.err, settings |-> AllSettings(vp, environ, NoFile)]
        ELSE IF ~exists(files, g.filename)
        THEN [cfg |-> c, viper |-> vp, err |-> <<"no such file or directory">>,
              settings |-> AllSettings(vp, environ, NoFile)]
        ELSE IF ReadConfig(g.ext, file) # NilError
        THEN [cfg |-> c, viper |-> vp1, err |-> ReadConfig(g.ext, file),
              settings |-> AllSettings(vp, environ, NoFile)]
        ELSE IF u.err # NilError
        THEN [cfg |-> u.cfg, viper |-> vp1, err |-> Wrap("unmarshalling config", u.err),
              settings |-> settings]
        ELSE [cfg |-> u.cfg, viper |-> vp1, err |-> NilError, settings |-> settings]

----------------------------------------------------------------------------
(* Accessors. *)

\* globalConfig.Service.(T): an interface type matches every non-nil value
TypeAssert(svc, t) ==
    IF t \in InterfaceTypes THEN svc.type # NilType ELSE svc.type = t

\* faulty variant: the error reports the two types in the wrong places
GetServiceConfigSwapped(c, t) ==
    IF ~TypeAssert(c.Service, t)
    THEN [val |-> Zero(t),
          err |-> <<"invalid service config type", c.Service.type, Zero(t).type>>]
    ELSE [val |-> c.Service, err |-> NilError]

\* GetServiceConfig[T]()
GetServiceConfig(c, t) ==
    IF ~TypeAssert(c.Service, t)
    THEN [val |-> Zero(t),
          err |-> <<"invalid service config type", Zero(t).type, c.Service.type>>]
    ELSE [val |-> c.Service, err |-> NilError]

\* faulty variant: the secret is copied as it is
GetSecureCopyUnmasked(c) == c

\* faulty variant: the copy hides the payload along with the secret
GetSecureCopyHidingService(c) ==
    IF c.AppSecret # EmptyString
    THEN [c EXCEPT !.AppSecret = Mask, !.Service = NilInterface]
    ELSE c

\* GetSecureCopy()
GetSecureCopy(c) ==
    IF c.AppSecret # EmptyString THEN [c EXCEPT !.AppSecret = Mask] ELSE c

----------------------------------------------------------------------------
(* Logging. *)

\* slog.Level as a number: a handler emits a record whose level is at least
\* its threshold
LevelRank(level) ==
    CASE level = LevelDebug -> 0 [] level = LevelInfo -> 1
      [] level = LevelWarn -> 2 [] level = LevelError -> 3

\* one call of slog.Debug / slog.Info / slog.Error: the message, the
\* attributes as <<key, value>> pairs, and whether the default handler's
\* threshold lets it out
Record(level, msg, attrs, sink) ==
    [level |-> level, msg |-> msg, attrs |-> attrs,
     emitted |-> LevelRank(level) >= LevelRank(sink)]

\* the records defaultValues hands to slog, in order
LoggedByDefaultValues(c, sink, u1, u2) ==
    LET d == defaultValues(c, sink, u1, u2)
        invalidID == c.AppID # EmptyString /\ Len(c.AppID) < MinAppIDLen
    IN  (IF c.AppID = EmptyString
         THEN <<Record(LevelDebug, "Generated new AppID", {<<"appID", u1>>}, sink)>>
         ELSE <<>>)
        \o (IF ~invalidID /\ c.AppSecret = EmptyString
            THEN <<Record(LevelDebug, "Generated new AppSecret", {}, sink)>>
            ELSE <<>>)
        \o (IF d.err = NilError
            THEN <<Record(LevelDebug, "logger configured",
                          {<<"level", d.cfg.Logger.LogLevel>>}, d.slog)>>
            ELSE <<>>)

\* the records readInConfig hands to slog, in order
LoggedByReadInConfig(c, files, sink) ==
    LET g == getConfigFile(c)
    IN  <<Record(LevelInfo, "Reading config file", {<<"file", c.ConfigFile>>}, sink)>>
        \o (IF /\ g.err = NilError
               /\ exists(files, g.filename)
               /\ c.envPrefix # EmptyString
            THEN <<Record(LevelDebug, "Setting environment variable prefix",
                          {<<"prefix", c.envPrefix>>}, sink)>>
            ELSE <<>>)

\* faulty variant: the singleton is logged, not its masked copy
LoggedByLogConfigUnmasked(c, sink) ==
    <<Record(LevelDebug, "Current configuration",
             {<<"appID", c.AppID>>,
              <<"appSecret", c.AppSecret>>,
              <<"logLevel", c.Logger.LogLevel>>}, sink)>>

\* the record LogConfig hands to slog
LoggedByLogConfig(c, sink) ==
    LET secureCfg == GetSecureCopy(c)
    IN  <<Record(LevelDebug, "Current configuration",
                 {<<"appID", secureCfg.AppID>>,
                  <<"appSecret", secureCfg.AppSecret>>,
                  <<"logLevel", secureCfg.Logger.LogLevel>>}, sink)>>

----------------------------------------------------------------------------
(* State. *)

VARIABLES
    globalConfig,   \* the singleton *Config
    viper,          \* the settings of globalConfig.viper that outlive a call
    fs,             \* the files written since start: path -> file, NoFile where none
    env,            \* the process environment
    slogLevel,      \* threshold of the default slog handler
    calls,          \* number of singleton-changing calls made so far
    uuids,          \* number of uuid.NewString() calls made so far, modulo NumUUIDs
    last,           \* the most recent library call: arguments and results
    conc            \* concurrent callers of InitServiceConfig: their positions
                    \* and locals, and what the engine holds between its calls

vars == <<globalConfig, viper, fs, env, slogLevel, calls, uuids, last, conc>>

\* the singleton as func init() builds it
InitialConfig ==
    [ConfigFile |-> EmptyString, Init |-> FALSE, AppID |-> EmptyString,
     AppSecret |-> EmptyString, Logger |-> [LogLevel |-> LevelDebug],
     Service |-> NilInterface, envPrefix |-> EmptyString]

NoCall ==
    [op |-> "init", path |-> EmptyString, existed |-> FALSE, v |-> NilInterface,
     t |-> NilType, err |-> NilError, val |-> NilInterface, copy |-> InitialConfig,
     log |-> <<>>]

\* no goroutine besides the caller's
NoGoroutines == [pc |-> <<>>]

Init ==
    /\ globalConfig = InitialConfig
    /\ viper = [envPrefix |-> EmptyString, envKeyReplacer |-> FALSE]
    /\ fs = [p \in NewPaths |-> NoFile]
    /\ env \in Environments
    /\ slogLevel = LevelDebug
    /\ calls = 0
    /\ uuids = 0
    /\ last = NoCall
    /\ conc = NoGoroutines

----------------------------------------------------------------------------
(* Operations. *)

\* the number of uuid.NewString() calls defaultValues(c) makes
DrawnID(c) == IF c.AppID = EmptyString THEN 1 ELSE 0

Drawn(c) ==
    IF c.AppID # EmptyString /\ Len(c.AppID) < MinAppIDLen THEN 0
    ELSE DrawnID(c) + (IF c.AppSecret = EmptyString THEN 1 ELSE 0)

\* faulty variant: the payload v is not bound to the singleton
InitLoadUnbound(c, vp, files, environ, sink, v, configPath, u1, u2) ==
    LET configFile == Abs(configPath)
        g1 == [c EXCEPT !.ConfigFile = configFile]
        absent == ~exists(files, configFile)
        d == defaultConfig([g1 EXCEPT !.Init = TRUE], sink, files, configPath, u1, u2)
        g2 == IF absent THEN [d.cfg EXCEPT !.Init = FALSE] ELSE g1
        files2 == IF absent THEN d.fs ELSE files
        sink2 == IF absent THEN d.slog ELSE sink
        r == readInConfig(g2, vp, files2, environ)
    IN  IF absent /\ d.err # NilError
        THEN [cfg |-> d.cfg, viper |-> vp, fs |-> d.fs, slog |-> d.slog,
              err |-> Wrap("writing default config", d.err)]
        ELSE IF r.err # NilError
        THEN [cfg |-> r.cfg, viper |-> r.viper, fs |-> files2, slog |-> sink2,
              err |-> Wrap("reading config", r.err)]
        ELSE [cfg |-> r.cfg, viper |-> r.viper, fs |-> files2, slog |-> sink2,
              err |-> NilError]

\* faulty variant: the payload is bound without the values the caller put in it
InitLoadZeroed(c, vp, files, environ, sink, v, configPath, u1, u2) ==
    LET configFile == Abs(configPath)
        g1 == [c EXCEPT !.ConfigFile = configFile,
                         !.Service = IF v.isNil THEN v
                                     ELSE [v EXCEPT !.fields = ZeroFields(v.type)]]
        absent == ~exists(files, configFile)
        d == defaultConfig([g1 EXCEPT !.Init = TRUE], sink, files, configPath, u1, u2)
        g2 == IF absent THEN [d.cfg EXCEPT !.Init = FALSE] ELSE g1
        files2 == IF absent THEN d.fs ELSE files
        sink2 == IF absent THEN d.slog ELSE sink
        r == readInConfig(g2, vp, files2, environ)
    IN  IF absent /\ d.err # NilError
        THEN [cfg |-> d.cfg, viper |-> vp, fs |-> d.fs, slog |-> d.slog,
              err |-> Wrap("writing default config", d.err)]
        ELSE IF r.err # NilError
        THEN [cfg |-> r.cfg, viper |-> r.viper, fs |-> files2, slog |-> sink2,
              err |-> Wrap("reading config", r.err)]
        ELSE [cfg |-> r.cfg, viper |-> r.viper, fs |-> files2, slog |-> sink2,
              err |-> NilError]

\* faulty variant: the extension is looked at before a default file is written
InitLoadLocatingFirst(c, vp, files, environ, sink, v, configPath, u1, u2) ==
    LET configFile == Abs(configPath)
        g1 == [c EXCEPT !.ConfigFile = configFile, !.Service = v]
        absent == ~exists(files, configFile)
        d == defaultConfig([g1 EXCEPT !.Init = TRUE], sink, files, configPath, u1, u2)
        g2 == IF absent THEN [d.cfg EXCEPT !.Init = FALSE] ELSE g1
        files2 == IF absent THEN d.fs ELSE files
        sink2 == IF absent THEN d.slog ELSE sink
        r == readInConfig(g2, vp, files2, environ)
    IN  IF getConfigFile(g1).err # NilError
        THEN [cfg |-> g1, viper |-> vp, fs |-> files, slog |-> sink,
              err |-> Wrap("reading config", getConfigFile(g1).err)]
        ELSE IF absent /\ d.err # NilError
        THEN [cfg |-> d.cfg, viper |-> vp, fs |-> d.fs, slog |-> d.slog,
              err |-> Wrap("writing default config", d.err)]
        ELSE IF r.err # NilError
        THEN [cfg |-> r.cfg, viper |-> r.viper, fs |-> files2, slog |-> sink2,
              err |-> Wrap("reading config", r.err)]
        ELSE [cfg |-> r.cfg, viper |-> r.viper, fs |-> files2, slog |-> sink2,
              err |-> NilError]

\* InitServiceConfig(v, configPath) up to and including readInConfig;
\* u1, u2 are the UUIDs defaultConfig draws
InitLoad(c, vp, files, environ, sink, v, configPath, u1, u2) ==
    LET configFile == Abs(configPath)
        g1 == [c EXCEPT !.ConfigFile = configFile, !.Service = v]
        absent == ~exists(files, configFile)
        d == defaultConfig([g1 EXCEPT !.Init = TRUE], sink, files, configPath, u1, u2)
        g2 == IF absent THEN [d.cfg EXCEPT !.Init = FALSE] ELSE g1
        files2 == IF absent THEN d.fs ELSE files
        sink2 == IF absent THEN d.slog ELSE sink
        r == readInConfig(g2, vp, files2, environ)
    IN  IF absent /\ d.err # NilError
        THEN [cfg |-> d.cfg, viper |-> vp, fs |-> d.fs, slog |-> d.slog,
              err |-> Wrap("writing default config", d.err)]
        ELSE IF r.err # NilError
        THEN [cfg |-> r.cfg, viper |-> r.viper, fs |-> files2, slog |-> sink2,
              err |-> Wrap("reading config", r.err)]
        ELSE [cfg |-> r.cfg, viper |-> r.viper, fs |-> files2, slog |-> sink2,
              err |-> NilError]

\* faulty variant: defaultValues is not run after the read
InitValidateSkipped(l, u3, u4) == l

\* faulty variant: a failed validation discards the values that were read
InitValidateDiscarding(l, u3, u4) ==
    LET dv == defaultValues(l.cfg, l.slog, u3, u4)
    IN  IF l.err # NilError THEN l
        ELSE IF dv.err # NilError
        THEN [l EXCEPT !.cfg = [dv.cfg EXCEPT !.AppID = EmptyString,
                                              !.AppSecret = EmptyString,
                                              !.Logger.LogLevel = LevelDebug],
                       !.slog = dv.slog,
                       !.err = Wrap("setting default values", dv.err)]
        ELSE [l EXCEPT !.cfg = dv.cfg, !.slog = dv.slog]

\* the rest of InitServiceConfig: defaultValues (drawing u3, u4), LogConfig
InitValidate(l, u3, u4) ==
    LET dv == defaultValues(l.cfg, l.slog, u3, u4)
    IN  IF l.err # NilError THEN l
        ELSE IF dv.err # NilError
        THEN [l EXCEPT !.cfg = dv.cfg, !.slog = dv.slog,
                       !.err = Wrap("setting default values", dv.err)]
        ELSE [l EXCEPT !.cfg = dv.cfg, !.slog = dv.slog]

\* the records one call of InitServiceConfig hands to slog, in order
LoggedByInitServiceConfig(c, vp, files, environ, sink, v, configPath, u1, u2, u3, u4) ==
    LET configFile == Abs(configPath)
        g1 == [c EXCEPT !.ConfigFile = configFile, !.Service = v]
        absent == ~exists(files, configFile)
        d == defaultConfig([g1 EXCEPT !.Init = TRUE], sink, files, configPath, u1, u2)
        g2 == IF absent THEN [d.cfg EXCEPT !.Init = FALSE] ELSE g1
        files2 == IF absent THEN d.fs ELSE files
        sink2 == IF absent THEN d.slog ELSE sink
        l == InitLoad(c, vp, files, environ, sink, v, configPath, u1, u2)
        r == InitValidate(l, u3, u4)
        generated ==
            IF absent
            THEN <<Record(LevelInfo, "Configuration file not found, creating default",
                          {<<"path", configFile>>}, sink)>>
                 \o LoggedByDefaultValues([g1 EXCEPT !.Init = TRUE], sink, u1, u2)
            ELSE <<>>
    IN  IF absent /\ d.err # NilError
        THEN generated
        ELSE generated
             \o LoggedByReadInConfig(g2, files2, sink2)
             \o (IF l.err # NilError THEN <<>>
                 ELSE LoggedByDefaultValues(l.cfg, l.slog, u3, u4))
             \o (IF r.err # NilError THEN <<>>
                 ELSE LoggedByLogConfig(r.cfg, r.slog))

InitServiceConfig(v, configPath) ==
    /\ calls < MaxCalls
    /\ LET absent == ~exists(fs, Abs(configPath))
           n == uuids + (IF absent THEN Drawn(globalConfig) ELSE 0)
       IN  \E l \in {InitLoad(globalConfig, viper, fs, env, slogLevel, v, configPath,
                               NewString(uuids),
                               NewString(uuids + DrawnID(globalConfig)))} :
             \E r \in {InitValidate(l, NewString(n), NewString(n + DrawnID(l.cfg)))} :
                 /\ globalConfig' = r.cfg
                 /\ viper' = r.viper
                 /\ fs' = r.fs
                 /\ slogLevel' = r.slog
                 /\ uuids' = (n + (IF l.err = NilError THEN Drawn(l.cfg) ELSE 0))
                                 % NumUUIDs
                 /\ last' = [NoCall EXCEPT !.op = "InitServiceConfig",
                                           !.path = configPath,
                                           !.existed = ~absent,
                                           !.v = v, !.err = r.err,
                                           !.log = LoggedByInitServiceConfig(
                                               globalConfig, viper, fs, env,
                                               slogLevel, v, configPath,
                                               NewString(uuids),
                                               NewString(uuids + DrawnID(globalConfig)),
                                               NewString(n),
                                               NewString(n + DrawnID(l.cfg)))]
    /\ calls' = calls + 1
    /\ UNCHANGED <<env, conc>>

\* faulty variant: the stored payload is not replaced by the zero T
DefaultConfigKeepsPayload(t, configPath) ==
    /\ calls < MaxCalls
    /\ \E r \in {defaultConfig([globalConfig EXCEPT !.Init = TRUE],
                                slogLevel, fs, configPath, NewString(uuids),
                                NewString(uuids + DrawnID(globalConfig)))} :
           /\ globalConfig' = r.cfg
           /\ fs' = r.fs
           /\ slogLevel' = r.slog
           /\ last' = [NoCall EXCEPT !.op = "DefaultConfig", !.path = configPath,
                                     !.existed = exists(fs, Abs(configPath)),
                                     !.t = t, !.err = r.err,
                                     !.log = LoggedByDefaultValues(
                                         [globalConfig EXCEPT !.Init = TRUE],
                                         slogLevel, NewString(uuids),
                                         NewString(uuids + DrawnID(globalConfig)))]
    /\ uuids' = (uuids + Drawn(globalConfig)) % NumUUIDs
    /\ calls' = calls + 1
    /\ UNCHANGED <<viper, env, conc>>

\* DefaultConfig[T](configPath)
DefaultConfig(t, configPath) ==
    /\ calls < MaxCalls
    /\ \E r \in {defaultConfig([globalConfig EXCEPT !.Init = TRUE, !.Service = Zero(t)],
                                slogLevel, fs, configPath, NewString(uuids),
                                NewString(uuids + DrawnID(globalConfig)))} :
           /\ globalConfig' = r.cfg
           /\ fs' = r.fs
           /\ slogLevel' = r.slog
           /\ last' = [NoCall EXCEPT !.op = "DefaultConfig", !.path = configPath,
                                     !.existed = exists(fs, Abs(configPath)),
                                     !.t = t, !.err = r.err,
                                     !.log = LoggedByDefaultValues(
                                         [globalConfig EXCEPT !.Init = TRUE,
                                                              !.Service = Zero(t)],
                                         slogLevel, NewString(uuids),
                                         NewString(uuids + DrawnID(globalConfig)))]
    /\ uuids' = (uuids + Drawn(globalConfig)) % NumUUIDs
    /\ calls' = calls + 1
    /\ UNCHANGED <<viper, env, conc>>

\* SetEnvPrefix(prefix)
SetEnvPrefix(prefix) ==
    /\ calls < MaxCalls
    /\ globalConfig' = [globalConfig EXCEPT !.envPrefix = prefix]
    /\ last' = [NoCall EXCEPT !.op = "SetEnvPrefix"]
    /\ calls' = calls + 1
    /\ UNCHANGED <<viper, fs, env, slogLevel, uuids, conc>>

\* a call of GetServiceConfig[T]()
GetServiceConfigCall(t) ==
    /\ \E r \in {GetServiceConfig(globalConfig, t)} :
           last' = [NoCall EXCEPT !.op = "GetServiceConfig", !.t = t,
                                  !.val = r.val, !.err = r.err]
    /\ UNCHANGED <<globalConfig, viper, fs, env, slogLevel, calls, uuids, conc>>

\* a call of GetSecureCopy()
GetSecureCopyCall ==
    /\ last' = [NoCall EXCEPT !.op = "GetSecureCopy", !.copy = GetSecureCopy(globalConfig)]
    /\ UNCHANGED <<globalConfig, viper, fs, env, slogLevel, calls, uuids, conc>>

\* LogConfig(): logs the fields of the secure copy
LogConfig ==
    /\ last' = [NoCall EXCEPT !.op = "LogConfig", !.copy = GetSecureCopy(globalConfig),
                              !.log = LoggedByLogConfig(globalConfig, slogLevel)]
    /\ UNCHANGED <<globalConfig, viper, fs, env, slogLevel, calls, uuids, conc>>

Next ==
    \/ \E in \in InitInputs : InitServiceConfig(in[1], in[2])
    \/ \E t \in DefaultTypes, p \in DefaultPaths : DefaultConfig(t, p)
    \/ \E prefix \in EnvPrefixes : SetEnvPrefix(prefix)
    \/ \E t \in TypeParams : GetServiceConfigCall(t)
    \/ GetSecureCopyCall
    \/ LogConfig

Spec == Init /\ [][Next]_vars

----------------------------------------------------------------------------
(* Two goroutines calling InitServiceConfig with no lock on the singleton: *)
(* each runs the statements of the function one at a time, and between     *)
(* two statements of one the other may run.  The config type and the       *)
(* parsed document live in the engine the singleton points to, so the      *)
(* goroutines share them.                                                  *)

Goroutines == {1, 2}

\* a second payload template (src/helpers.go:106-109)
AnotherPayload ==
    [type |-> PtrAnother, isNil |-> FALSE,
     fields |-> [port |-> <<"8", "0">>, host |-> <<"h">>]]

\* the arguments the concurrent calls are made with
ConcurrentInputs ==
    {<<CustomPayload, PathOk>>, <<AnotherPayload, PathJSON>>,
     <<CustomPayload, PathMixed>>, <<AnotherPayload, PathNewYaml>>}

InitConcurrent ==
    /\ globalConfig = InitialConfig
    /\ viper = [envPrefix |-> EmptyString, envKeyReplacer |-> FALSE]
    /\ fs = [p \in NewPaths |-> NoFile]
    /\ env \in Environments
    /\ slogLevel = LevelDebug
    /\ calls = 0
    /\ uuids = 0
    /\ last = NoCall
    /\ \E a \in [Goroutines -> ConcurrentInputs] :
          /\ a[1] # a[2]
          /\ conc = [pc |-> [g \in Goroutines |-> "line86"],
                     args |-> a,
                     file |-> [g \in Goroutines |-> NoFile],
                     ext |-> [g \in Goroutines |-> EmptyString],
                     err |-> [g \in Goroutines |-> NilError],
                     configType |-> EmptyString,
                     config |-> NoFile,
                     overlapped |-> FALSE,
                     order |-> <<>>]

\* goroutine g moves to a statement; the calls overlap once one of them
\* runs a statement while the other is between its first and its return
Advance(g, to) ==
    [conc EXCEPT !.pc[g] = to,
                 !.overlapped = @ \/ \E h \in Goroutines \ {g} :
                                         conc.pc[h] \notin {"line86", "return"},
                 !.order = IF to = "return" THEN Append(@, g) ELSE @]

\* goroutine g returns err
Return(g, err) == [Advance(g, "return") EXCEPT !.err[g] = err]

\* globalConfig.ConfigFile = configFile
AssignConfigFile(g) ==
    /\ conc.pc[g] = "line86"
    /\ globalConfig' = [globalConfig EXCEPT !.ConfigFile = Abs(conc.args[g][2])]
    /\ conc' = Advance(g, "line87")
    /\ UNCHANGED <<viper, fs, env, slogLevel, calls, uuids, last>>

\* faulty variant: the statement does not store the payload
AssignServiceSkipped(g) ==
    /\ conc.pc[g] = "line87"
    /\ conc' = Advance(g, "line90")
    /\ UNCHANGED <<globalConfig, viper, fs, env, slogLevel, calls, uuids, last>>

\* globalConfig.Service = v
AssignService(g) ==
    /\ conc.pc[g] = "line87"
    /\ globalConfig' = [globalConfig EXCEPT !.Service = conc.args[g][1]]
    /\ conc' = Advance(g, "line90")
    /\ UNCHANGED <<viper, fs, env, slogLevel, calls, uuids, last>>

\* if !exists(afs, configFile) { ... defaultConfig(configPath) ... }, the
\* generation of the default file taken as one statement
CheckExists(g) ==
    /\ conc.pc[g] = "line90"
    /\ IF exists(fs, Abs(conc.args[g][2]))
       THEN /\ conc' = Advance(g, "line271")
            /\ UNCHANGED <<globalConfig, fs, slogLevel, uuids>>
       ELSE \E d \in {defaultConfig([globalConfig EXCEPT !.Init = TRUE], slogLevel, fs,
                                    conc.args[g][2], NewString(uuids),
                                    NewString(uuids + DrawnID(globalConfig)))} :
               /\ globalConfig' = IF d.err = NilError
                                  THEN [d.cfg EXCEPT !.Init = FALSE] ELSE d.cfg
               /\ fs' = d.fs
               /\ slogLevel' = d.slog
               /\ uuids' = (uuids + Drawn(globalConfig)) % NumUUIDs
               /\ conc' = IF d.err = NilError THEN Advance(g, "line271")
                          ELSE Return(g, Wrap("writing default config", d.err))
    /\ UNCHANGED <<viper, env, calls, last>>

\* readInConfig up to afero.ReadFile: the path read is the singleton's
\* ConfigFile, not the caller's
ReadFile(g) ==
    /\ conc.pc[g] = "line271"
    /\ \E f \in {getConfigFile(globalConfig)} :
          conc' = IF f.err # NilError
                  THEN Return(g, Wrap("reading config", f.err))
                  ELSE IF ~exists(fs, f.filename)
                  THEN Return(g, <<"reading config", "no such file or directory">>)
                  ELSE [Advance(g, "line281") EXCEPT !.file[g] = Disk(fs)[f.filename],
                                                     !.ext[g] = f.ext]
    /\ UNCHANGED <<globalConfig, viper, fs, env, slogLevel, calls, uuids, last>>

\* c.viper.SetConfigType(ext) ... c.viper.AutomaticEnv()
ConfigureViper(g) ==
    /\ conc.pc[g] = "line281"
    /\ conc' = [Advance(g, "line292") EXCEPT !.configType = conc.ext[g]]
    /\ viper' = IF globalConfig.envPrefix # EmptyString
                THEN [envPrefix |-> globalConfig.envPrefix, envKeyReplacer |-> TRUE]
                ELSE viper
    /\ UNCHANGED <<globalConfig, fs, env, slogLevel, calls, uuids, last>>

\* c.viper.ReadConfig(bytes.NewReader(file))
ViperReadConfig(g) ==
    /\ conc.pc[g] = "line292"
    /\ \E e \in {ReadConfig(conc.configType, conc.file[g])} :
          conc' = IF e # NilError
                  THEN Return(g, Wrap("reading config", e))
                  ELSE [Advance(g, "line296") EXCEPT !.config = conc.file[g]]
    /\ UNCHANGED <<globalConfig, viper, fs, env, slogLevel, calls, uuids, last>>

\* c.viper.Unmarshal(globalConfig)
ViperUnmarshal(g) ==
    /\ conc.pc[g] = "line296"
    /\ \E u \in {Unmarshal(globalConfig, AllSettings(viper, env, conc.config))} :
          /\ globalConfig' = u.cfg
          /\ conc' = IF u.err # NilError
                     THEN Return(g, Wrap("reading config",
                                         Wrap("unmarshalling config", u.err)))
                     ELSE Advance(g, "line105")
    /\ UNCHANGED <<viper, fs, env, slogLevel, calls, uuids, last>>

\* globalConfig.defaultValues(); LogConfig(); return nil
RunDefaultValues(g) ==
    /\ conc.pc[g] = "line105"
    /\ \E d \in {defaultValues(globalConfig, slogLevel, NewString(uuids),
                               NewString(uuids + DrawnID(globalConfig)))} :
          /\ globalConfig' = d.cfg
          /\ slogLevel' = d.slog
          /\ conc' = IF d.err # NilError
                     THEN Return(g, Wrap("setting default values", d.err))
                     ELSE Advance(g, "return")
    /\ uuids' = (uuids + Drawn(globalConfig)) % NumUUIDs
    /\ UNCHANGED <<viper, fs, env, calls, last>>

NextConcurrent ==
    \E g \in Goroutines :
        \/ AssignConfigFile(g)
        \/ AssignService(g)
        \/ CheckExists(g)
        \/ ReadFile(g)
        \/ ConfigureViper(g)
        \/ ViperReadConfig(g)
        \/ ViperUnmarshal(g)
        \/ RunDefaultValues(g)

SpecConcurrent == InitConcurrent /\ [][NextConcurrent]_vars

----------------------------------------------------------------------------
(* Vocabulary of the properties. *)

RecognizedNames == {LevelDebug, LevelInfo, LevelWarn, Warning, LevelError}

\* case-insensitive equality of two strings
EqualFold(a, b) ==
    /\ Len(a) = Len(b)
    /\ \A i \in 1..Len(a) : UpperChar(a[i]) = UpperChar(b[i])

Recognized(level) == \E n \in RecognizedNames : EqualFold(level, n)

\* the textual form of a UUID
IsUUID(str) ==
    /\ Len(str) = 36
    /\ \A i \in {9, 14, 19, 24} : str[i] = "-"

ValidAppID(id) == id = EmptyString \/ Len(id) >= 8

ValidAppSecret(secret) == secret = EmptyString \/ Len(secret) >= 12

\* the latest call is InitServiceConfig
LastInit == last.op = "InitServiceConfig"

\* ... and its locate/parse/merge stage succeeded
ReadOk == last.err = NilError \/ last.err[1] = "setting default values"

\* the file that call read, and the values it delivered after the
\* environment was merged in
TheFile == Disk(fs)[Abs(last.path)]

Effective == AllSettings(viper, env, TheFile)

The(set) == CHOOSE x \in set : TRUE

\* InitServiceConfig has just loaded an existing file that sets the three
\* base keys
LoadedExisting ==
    /\ LastInit
    /\ last.existed
    /\ ReadOk
    /\ TheFile.appID # {}
    /\ TheFile.appSecret # {}
    /\ TheFile.logLevel # {}

\* C1: on an existing, parseable file with valid AppID and AppSecret,
\* InitServiceConfig returns nil exactly when the effective log level is,
\* case-insensitively, one of DEBUG, INFO, WARN, WARNING, ERROR; otherwise
\* the error contains "unknown log level".
C1_LevelDecidesLoad ==
    (/\ LoadedExisting
     /\ ValidAppID(The(Effective.appID))
     /\ ValidAppSecret(The(Effective.appSecret)))
    => LET level == The(Effective.logLevel)
       IN  /\ (last.err = NilError) <=> Recognized(level)
           /\ ~Recognized(level) => ErrContains(last.err, "unknown log level")

C1_Witness ==
    /\ LoadedExisting
    /\ The(Effective.logLevel) = <<"W", "a", "r", "n">>
    /\ last.err = NilError

\* C2: after InitServiceConfig returns nil on a file whose log level is a
\* recognized level in any letter case, Logger.LogLevel holds that level
\* exactly as the file (or its environment override) wrote it, not its
\* upper-case form; the upper-case form only selects the sink's threshold,
\* WARNING selecting WARN.
C2_LevelStoredAsWritten ==
    (LoadedExisting /\ last.err = NilError)
    => LET level == The(Effective.logLevel)
       IN  /\ Recognized(level)
           /\ globalConfig.Logger.LogLevel = level
           /\ slogLevel = SinkLevel(ToUpper(level))

C2_Witness ==
    /\ LoadedExisting
    /\ last.err = NilError
    /\ TheFile.logLevel = {<<"W", "a", "r", "n">>}
    /\ globalConfig.Logger.LogLevel = <<"W", "a", "r", "n">>
    /\ slogLevel = LevelWarn

\* C2 as stated: the stored level is the upper-case name of the file's level
C2_LevelStoredNormalized ==
    (LoadedExisting /\ last.err = NilError /\ Recognized(The(Effective.logLevel)))
    => globalConfig.Logger.LogLevel = ToUpper(The(Effective.logLevel))

C4_AppSecretLength ==
    (/\ LoadedExisting
     /\ Effective.appSecret = TheFile.appSecret
     /\ ValidAppID(The(Effective.appID))
     /\ Recognized(The(Effective.logLevel)))
    => LET secret == The(TheFile.appSecret)
       IN  /\ (Len(secret) >= 1 /\ Len(secret) <= 11)
                 => ErrContains(last.err, "invalid AppSecret")
           /\ secret = EmptyString
                 => /\ last.err = NilError
                    /\ IsUUID(globalConfig.AppSecret)
                    /\ Len(globalConfig.AppSecret) >= 12

C4_Witness ==
    /\ LoadedExisting
    /\ calls = 2
    /\ The(TheFile.appSecret) = EmptyString
    /\ last.err = NilError
    /\ IsUUID(globalConfig.AppSecret)

\* C5: in every state in which an InitServiceConfig call has just returned
\* nil, whatever calls came before, AppID, AppSecret and Logger.LogLevel are
\* non-empty and Logger.LogLevel is, compared case-insensitively, one of
\* DEBUG, INFO, WARN, WARNING, ERROR.
C5_LoadedFieldsValid ==
    (LastInit /\ last.err = NilError)
    => /\ globalConfig.AppID # EmptyString
       /\ globalConfig.AppSecret # EmptyString
       /\ globalConfig.Logger.LogLevel # EmptyString
       /\ Recognized(globalConfig.Logger.LogLevel)

C5_Witness ==
    /\ LastInit
    /\ last.err = NilError
    /\ calls = 2
    /\ IsUUID(globalConfig.AppSecret)
    /\ globalConfig.Logger.LogLevel = <<"e", "r", "r", "o", "r">>

\* C5 as stated: Logger.LogLevel is literally one of the five names
C5_LoadedLevelIsName ==
    (LastInit /\ last.err = NilError)
    => /\ globalConfig.AppID # EmptyString
       /\ globalConfig.AppSecret # EmptyString
       /\ globalConfig.Logger.LogLevel \in RecognizedNames

\* the extension of the path of the latest call is json, yaml or yml
SupportedPath(path) == contains(SupportedExt, TrimDot(Ext(Abs(path))))

\* C6: InitServiceConfig called on the freshly initialised singleton with a
\* path of supported extension at which no file exists, in a writable
\* directory, returns nil; afterwards the file exists and AppID and
\* AppSecret are non-empty.
C6_GeneratesThenLoads ==
    (/\ LastInit
     /\ calls = 1
     /\ ~last.existed
     /\ SupportedPath(last.path)
     /\ last.path \notin NoDirPaths)
    => /\ last.err = NilError
       /\ exists(Disk(fs), Abs(last.path))
       /\ globalConfig.AppID # EmptyString
       /\ globalConfig.AppSecret # EmptyString

\* C7: when DefaultConfig[T](path) has returned nil for a path of supported
\* extension, the InitServiceConfig(v, path) that follows it returns nil
\* and leaves AppID and AppSecret non-empty and Logger.LogLevel = DEBUG.
C7_RoundTrip ==
    [][(/\ last.op = "DefaultConfig"
        /\ last.err = NilError
        /\ SupportedPath(last.path)
        /\ last'.op = "InitServiceConfig"
        /\ last'.path = last.path)
       => /\ last'.err = NilError
          /\ globalConfig'.AppID # EmptyString
          /\ globalConfig'.AppSecret # EmptyString
          /\ globalConfig'.Logger.LogLevel = LevelDebug]_vars

\* the latest step is a call of GetServiceConfig[B] made while the stored
\* payload has a dynamic type other than B
MismatchedGet(B) ==
    /\ last'.op = "GetServiceConfig"
    /\ last'.t = B
    /\ globalConfig.Service.type # B

\* ... and it returned the zero B and the error naming B, then the stored
\* type, and changed nothing else
MismatchReported(B) ==
    /\ last'.val = Zero(B)
    /\ Len(last'.err) = 3
    /\ last'.err[1] = "invalid service config type"
    /\ last'.err[2] = B
    /\ last'.err[3] = globalConfig.Service.type
    /\ UNCHANGED <<globalConfig, viper, fs, env, slogLevel>>

\* C8: GetServiceConfig[B] for a non-interface type B, called while the
\* stored payload has a dynamic type A other than B (A is <nil> while no
\* payload is stored), returns the zero value of B and an error that
\* contains "invalid service config type" and names B as expected and A as
\* actual; the singleton is unchanged.
C8_MismatchIsError ==
    [][\A B \in TypeParams \ InterfaceTypes :
          MismatchedGet(B) => MismatchReported(B)]_vars

C8_Witness ==
    /\ last.op = "GetServiceConfig"
    /\ last.t = PtrAnother
    /\ globalConfig.Service.type = PtrCustom
    /\ last.val = Zero(PtrAnother)
    /\ last.err = <<"invalid service config type", PtrAnother, PtrCustom>>

\* C8 as stated: every type B, the interface type any included
C8_MismatchIsErrorForAny ==
    [][\A B \in TypeParams : MismatchedGet(B) => MismatchReported(B)]_vars

\* C9: after InitServiceConfig(v, path) returns nil for a non-nil v, the
\* stored payload has the dynamic type of v and carries, for every field
\* the file's service section sets, the value of the file; GetServiceConfig
\* with the type of v returns that payload and a nil error.
C9_PayloadKeepsType ==
    /\ (LastInit /\ last.err = NilError /\ last.v.type # NilType)
       => LET got == GetServiceConfig(globalConfig, last.v.type)
              section == Effective.service.fields
          IN  /\ globalConfig.Service.type = last.v.type
              /\ got.err = NilError
              /\ got.val = globalConfig.Service
              /\ \A f \in DOMAIN section \cap DOMAIN got.val.fields :
                     got.val.fields[f] = section[f]
    /\ (last.op = "GetServiceConfig" /\ last.t = globalConfig.Service.type)
       => (last.err = NilError /\ last.val = globalConfig.Service)

C9_Witness ==
    /\ last.op = "GetServiceConfig"
    /\ last.t = PtrCustom
    /\ last.err = NilError
    /\ globalConfig.ConfigFile = Abs(PathOk)
    /\ last.val.type = PtrCustom
    /\ last.val.fields = [username |-> TestService.fields.username,
                          password |-> CustomPayload.fields.password]

\* C10: in every reachable state GetSecureCopy returns a Config whose
\* AppSecret is the literal "********" when the singleton's AppSecret is
\* non-empty and is empty when the singleton's is empty; so did the
\* GetSecureCopy call just made.
C10_SecretMasked ==
    LET stars == <<"*", "*", "*", "*", "*", "*", "*", "*">>
        masked(copy) == IF globalConfig.AppSecret # EmptyString
                        THEN copy.AppSecret = stars
                        ELSE copy.AppSecret = EmptyString
    IN  /\ masked(GetSecureCopy(globalConfig))
        /\ last.op = "GetSecureCopy" => masked(last.copy)

C10_Witness ==
    /\ last.op = "GetSecureCopy"
    /\ Len(globalConfig.AppSecret) >= MinAppSecretLen
    /\ last.copy.AppSecret = <<"*", "*", "*", "*", "*", "*", "*", "*">>
    /\ last.copy.AppID = globalConfig.AppID

\* the environment variable that overrides a key under prefix P: P, an
\* underscore, the upper-cased key with "." and "-" replaced by "_"
OverrideName(P, key) == P \o <<"_">> \o EnvKeyReplace(ToUpper(key))

\* the non-empty values the environment gives that variable
Override(P, key) == {x \in LookupEnv(env, OverrideName(P, key)) : x # EmptyString}

\* C11: when SetEnvPrefix(P), P non-empty, preceded InitServiceConfig, a
\* key of the file for which the variable P_KEY is defined is loaded with
\* the variable's value, not the file's: with P_LOGGER_LOGLEVEL defined the
\* loaded Logger.LogLevel is the variable's value, and validation decides
\* on the overriding value (of the level and of the AppID alike).
C11_EnvOverridesFile ==
    \A P \in EnvPrefixes :
        (LastInit /\ ReadOk /\ globalConfig.envPrefix = P)
        => /\ \A x \in Override(P, KeyLogLevel) :
                 TheFile.logLevel # {}
                 => /\ globalConfig.Logger.LogLevel = x
                    /\ (ValidAppID(globalConfig.AppID)
                        /\ ValidAppSecret(globalConfig.AppSecret))
                       => (last.err = NilError <=> Recognized(x))
           /\ \A x \in Override(P, KeyAppID) :
                 TheFile.appID # {}
                 => /\ globalConfig.AppID = x
                    /\ Len(x) < MinAppIDLen => ErrContains(last.err, "invalid AppID")

C11_Witness ==
    /\ LastInit
    /\ last.path = PathTrace
    /\ globalConfig.envPrefix = EnvPrefixTest
    /\ TheFile.logLevel = {<<"T", "R", "A", "C", "E">>}
    /\ Override(EnvPrefixTest, KeyLogLevel) = {LevelInfo}
    /\ globalConfig.Logger.LogLevel = LevelInfo
    /\ last.err = NilError

\* C12: InitServiceConfig(v, path) on an existing file whose extension is
\* not exactly json, yaml or yml returns an error containing "unsupported
\* config file extension" and has read nothing of the file: apart from
\* ConfigFile and Service, which it sets on entry, the singleton, the
\* engine, the sink and the disk are as before.
C12_UnsupportedExtension ==
    [][(/\ last'.op = "InitServiceConfig"
        /\ last'.existed
        /\ ~SupportedPath(last'.path))
       => /\ ErrContains(last'.err, "unsupported config file extension")
          /\ globalConfig' = [globalConfig EXCEPT !.ConfigFile = Abs(last'.path),
                                                  !.Service = last'.v]
          /\ UNCHANGED <<viper, fs, slogLevel, uuids>>]_vars

C12_Witness ==
    /\ LastInit
    /\ last.path = PathUpper
    /\ last.existed
    /\ TheFile = ValidFile(LevelInfo)
    /\ ErrContains(last.err, "unsupported config file extension")
    /\ globalConfig.Logger.LogLevel # LevelInfo

\* C13: after InitServiceConfig(v, path) returns nil on an existing file,
\* every field of v that the file's service section sets holds the file's
\* value and every other field of v holds the value the caller put in v.
C13_DefaultsKept ==
    (LastInit /\ last.existed /\ last.err = NilError /\ ~last.v.isNil)
    => LET section == TheFile.service.fields
       IN  /\ DOMAIN globalConfig.Service.fields = DOMAIN last.v.fields
           /\ \A f \in DOMAIN last.v.fields :
                 globalConfig.Service.fields[f] =
                     IF f \in DOMAIN section THEN section[f] ELSE last.v.fields[f]

C13_Witness ==
    /\ LastInit
    /\ last.existed
    /\ last.err = NilError
    /\ last.v = CustomPayload
    /\ DOMAIN TheFile.service.fields = {"username"}
    /\ globalConfig.Service.fields.username = TestService.fields.username
    /\ globalConfig.Service.fields.password = CustomPayload.fields.password

\* C14: DefaultConfig[T](path) replaces the stored payload by the zero value
\* of T: when it has returned, GetServiceConfig[T] yields that zero value
\* without error, an accessor of any type that succeeds yields it too (so a
\* payload registered before is no longer returned), and the file it wrote
\* has the encoding of the zero T as its service section.
C14_DefaultZeroesPayload ==
    [][last'.op = "DefaultConfig"
       => LET T == last'.t
          IN  /\ globalConfig'.Service = Zero(T)
              /\ GetServiceConfig(globalConfig', T) = [val |-> Zero(T), err |-> NilError]
              /\ \A t \in TypeParams \cup DefaultTypes :
                    GetServiceConfig(globalConfig', t).err = NilError
                    => GetServiceConfig(globalConfig', t).val = Zero(T)
              /\ last'.err = NilError
                    => Disk(fs')[Abs(last'.path)].service = EncodeService(Zero(T))]_vars

C14_Witness ==
    /\ last.op = "DefaultConfig"
    /\ last.t = ValCustom
    /\ last.err = NilError
    /\ globalConfig.ConfigFile = Abs(PathMixed)
    /\ globalConfig.Service = Zero(ValCustom)
    /\ GetServiceConfig(globalConfig, PtrCustom).err # NilError
    /\ Disk(fs)[Abs(last.path)].service = MapService(ZeroFields(ValCustom))

\* what one whole call InitServiceConfig(v, path) leaves when it runs alone
\* from singleton c, engine vp, written files, sink and n UUIDs drawn
SerialCall(c, vp, files, sink, n, v, path) ==
    LET absent == ~exists(files, Abs(path))
        m == n + (IF absent THEN Drawn(c) ELSE 0)
        l == InitLoad(c, vp, files, env, sink, v, path, NewString(n),
                      NewString(n + DrawnID(c)))
        r == InitValidate(l, NewString(m), NewString(m + DrawnID(l.cfg)))
    IN  [cfg |-> r.cfg, viper |-> r.viper, fs |-> r.fs, slog |-> r.slog,
         err |-> r.err,
         uuids |-> m + (IF l.err = NilError THEN Drawn(l.cfg) ELSE 0)]

\* what the two calls leave when goroutine first runs to its return before
\* the other starts
SerialOutcome(first, second) ==
    LET a == SerialCall(InitialConfig, [envPrefix |-> EmptyString, envKeyReplacer |-> FALSE],
                        [p \in NewPaths |-> NoFile], LevelDebug, 0,
                        conc.args[first][1], conc.args[first][2])
        b == SerialCall(a.cfg, a.viper, a.fs, a.slog, a.uuids,
                        conc.args[second][1], conc.args[second][2])
    IN  [cfg |-> b.cfg, fs |-> b.fs, slog |-> b.slog,
         err |-> (first :> a.err) @@ (second :> b.err)]

BothReturned == \A g \in Goroutines : conc.pc[g] = "return"

BothNil == BothReturned /\ \A g \in Goroutines : conc.err[g] = NilError

\* C15: InitServiceConfig is not atomic for concurrent callers.  Two calls
\* that do not overlap leave exactly what the serial composition in their
\* order leaves; two calls that overlap, with no lock on the singleton, can
\* both return nil and leave a singleton that neither serial order leaves.
C15_SerialOnlyWithoutOverlap ==
    (BothReturned /\ ~conc.overlapped)
    => LET s == SerialOutcome(conc.order[1], conc.order[2])
       IN  /\ globalConfig = s.cfg
           /\ fs = s.fs
           /\ slogLevel = s.slog
           /\ conc.err = s.err

C15_Witness ==
    /\ BothNil
    /\ conc.overlapped
    /\ globalConfig # SerialOutcome(1, 2).cfg
    /\ globalConfig # SerialOutcome(2, 1).cfg
    /\ SerialOutcome(1, 2).err = SerialOutcome(2, 1).err
    /\ \E g, h \in Goroutines :
          /\ g # h
          /\ globalConfig.ConfigFile = Abs(conc.args[g][2])
          /\ globalConfig.Service.type = conc.args[h][1].type
          /\ conc.args[g][1].type # conc.args[h][1].type

\* C16: GetSecureCopy only reads: the call leaves the singleton, the
\* engine, the sink and the disk as they were, and the copy it returns
\* equals the singleton in every field but AppSecret, the Service payload
\* included, which is neither masked nor replaced.
C16_SecureCopyReadsOnly ==
    [][last'.op = "GetSecureCopy"
       => /\ UNCHANGED <<globalConfig, viper, fs, env, slogLevel>>
          /\ last'.copy = [globalConfig EXCEPT !.AppSecret = last'.copy.AppSecret]
          /\ last'.copy.Service = globalConfig.Service]_vars

C16_Witness ==
    /\ last.op = "GetSecureCopy"
    /\ globalConfig.AppSecret # EmptyString
    /\ last.copy.AppSecret # globalConfig.AppSecret
    /\ globalConfig.Service.type = PtrCustom
    /\ last.copy.Service = globalConfig.Service
    /\ last.copy.Logger = globalConfig.Logger

\* the value the latest load delivered for a key: the singleton holds it
\* unless the key is absent or its value is the empty string
Delivered(value, field) == \A x \in value : x # EmptyString => field = x

\* C17: InitServiceConfig runs its stages in the order locate, parse, merge
\* environment, store, validate: the values read for AppID, AppSecret and
\* the log level are in the singleton when validation runs, and when it
\* fails the singleton holds the value that failed after the call has
\* returned its error.
C17_StoredBeforeValidated ==
    (LastInit /\ ReadOk)
    => /\ Delivered(Effective.appID, globalConfig.AppID)
       /\ Delivered(Effective.appSecret, globalConfig.AppSecret)
       /\ Delivered(Effective.logLevel, globalConfig.Logger.LogLevel)
       /\ ErrContains(last.err, "invalid AppID")
             => ~ValidAppID(globalConfig.AppID)
       /\ ErrContains(last.err, "invalid AppSecret")
             => ~ValidAppSecret(globalConfig.AppSecret)
       /\ ErrContains(last.err, "unknown log level")
             => ~Recognized(globalConfig.Logger.LogLevel)

C17_Witness ==
    /\ LastInit
    /\ last.path = PathID7
    /\ calls = 2
    /\ ErrContains(last.err, "invalid AppID")
    /\ globalConfig.AppID = ID7

\* C17 as stated: after a call that returned an error the singleton holds
\* no value that fails validation
C17_ValidatedBeforeStored ==
    (LastInit /\ last.err # NilError)
    => /\ ValidAppID(globalConfig.AppID)
       /\ ValidAppSecret(globalConfig.AppSecret)
       /\ Recognized(globalConfig.Logger.LogLevel)

\* the threshold a recognized level names, WARNING naming WARN
NamedLevel(level) ==
    LET n == CHOOSE n \in RecognizedNames : EqualFold(level, n)
    IN  IF n = Warning THEN LevelWarn ELSE n

ValidationError(err) ==
    \/ ErrContains(err, "invalid AppID")
    \/ ErrContains(err, "invalid AppSecret")
    \/ ErrContains(err, "unknown log level")

\* C18: defaultValues replaces the logging sink only when the AppID,
\* AppSecret and level checks pass, and the threshold is then the level
\* Logger.LogLevel names (WARNING naming WARN).  A call that returns nil
\* leaves that threshold; a stage of InitServiceConfig or DefaultConfig
\* that returns a validation, read or parse error leaves the threshold it
\* found: the one before the call, or, where the call had generated a
\* default file first, the one that generation installed from the level
\* the singleton then held.
C18_SinkFollowsValidation ==
    [][last'.op \in {"InitServiceConfig", "DefaultConfig"}
       => LET generated == last'.op = "InitServiceConfig" /\ ~last'.existed
              laterStage == /\ last'.err # NilError
                            /\ last'.err[1] \in {"reading config", "setting default values"}
          IN  /\ last'.err = NilError
                    => /\ Recognized(globalConfig'.Logger.LogLevel)
                       /\ slogLevel' = NamedLevel(globalConfig'.Logger.LogLevel)
              /\ (~generated /\ (ValidationError(last'.err) \/ laterStage))
                    => slogLevel' = slogLevel
              /\ (generated /\ ValidationError(last'.err) /\ ~laterStage)
                    => slogLevel' = slogLevel
              /\ (generated /\ laterStage)
                    => slogLevel' = NamedLevel(globalConfig.Logger.LogLevel)
              /\ slogLevel' # slogLevel
                    => (last'.err = NilError \/ generated \/ ~ValidationError(last'.err))]_vars

C18_Witness ==
    /\ LastInit
    /\ last.existed
    /\ ErrContains(last.err, "unknown log level")
    /\ globalConfig.Logger.LogLevel = <<"T", "R", "A", "C", "E">>
    /\ slogLevel = LevelWarn

\* the attribute values of the records the most recent call handed to slog
Logged(call) ==
    {a[2] : a \in UNION {call.log[i].attrs : i \in DOMAIN call.log}}

\* the record of the call with the given message, if any
RecordsOf(call, msg) ==
    {call.log[i] : i \in {j \in DOMAIN call.log : call.log[j].msg = msg}}

\* C19: no record that InitServiceConfig, DefaultConfig or LogConfig hands to
\* the log carries the value of a non-empty AppSecret, be it the secret the
\* singleton held before the call or the one it holds after it: LogConfig
\* carries the secret only as the mask, and the record of a generated secret
\* has no attribute at all.
C19_SecretNeverLogged ==
    [][last'.op \in {"InitServiceConfig", "DefaultConfig", "LogConfig"}
       => /\ \A secret \in {globalConfig.AppSecret, globalConfig'.AppSecret}
                               \ {EmptyString} :
                 secret \notin Logged(last')
          /\ \A rec \in RecordsOf(last', "Current configuration") :
                 \A a \in rec.attrs :
                     a[1] = "appSecret"
                        => a[2] = IF globalConfig'.AppSecret = EmptyString
                                  THEN EmptyString ELSE Mask
          /\ \A rec \in RecordsOf(last', "Generated new AppSecret") :
                 rec.attrs = {}]_vars

\* InitServiceConfig has generated a secret and logged the configuration:
\* both records went out, the latter with the mask in the secret's place
C19_Witness ==
    /\ LastInit
    /\ last.err = NilError
    /\ IsUUID(globalConfig.AppSecret)
    /\ \E rec \in RecordsOf(last, "Generated new AppSecret") : rec.emitted
    /\ \E rec \in RecordsOf(last, "Current configuration") :
           /\ rec.emitted
           /\ <<"appSecret", Mask>> \in rec.attrs

\* the value the file of the most recent load, with the environment merged
\* in, delivered for one base key ({} where neither sets it)
DeliveredFor(key, fileValue) == Find(viper, env, key, fileValue)

\* C20: InitServiceConfig merges into the singleton as it stands. When its
\* locate/parse/merge stage has succeeded, a base field that neither the
\* file nor the environment sets has the value it had before the call, be
\* it generated or loaded by an earlier call; only a field that was still
\* empty is afterwards filled by the validation that follows the merge.
C20_UnsetFieldsKept ==
    [][(LastInit' /\ ReadOk')
       => /\ (/\ TheFile'.appID = {}
              /\ DeliveredFor(KeyAppID, TheFile.appID)' = {})
             => IF globalConfig.AppID # EmptyString
                THEN globalConfig'.AppID = globalConfig.AppID
                ELSE IsUUID(globalConfig'.AppID)
          /\ (/\ TheFile'.appSecret = {}
              /\ DeliveredFor(KeyAppSecret, TheFile.appSecret)' = {})
             => IF globalConfig.AppSecret # EmptyString
                THEN globalConfig'.AppSecret = globalConfig.AppSecret
                ELSE \/ IsUUID(globalConfig'.AppSecret)
                     \/ /\ globalConfig'.AppSecret = EmptyString
                        /\ ErrContains(last'.err, "invalid AppID")
          /\ (/\ TheFile'.logLevel = {}
              /\ DeliveredFor(KeyLogLevel, TheFile.logLevel)' = {})
             => globalConfig'.Logger.LogLevel = globalConfig.Logger.LogLevel]_vars

\* a second load, from a file without base keys, after a first load whose
\* file gave the AppID and the level and left the secret to be generated
C20_Witness ==
    /\ LastInit
    /\ last.existed
    /\ last.err = NilError
    /\ calls = 2
    /\ Effective.appID = {}
    /\ Effective.appSecret = {}
    /\ Effective.logLevel = {}
    /\ globalConfig.AppID = ID8
    /\ IsUUID(globalConfig.AppSecret)
    /\ globalConfig.Logger.LogLevel = <<"e", "r", "r", "o", "r">>


\* the validation error defaultValues gives for a singleton, NilError if none:
\* the AppID is looked at first, then the AppSecret, then the level
Invalidity(c) ==
    IF c.AppID # EmptyString /\ Len(c.AppID) < MinAppIDLen THEN "invalid AppID"
    ELSE IF c.AppSecret # EmptyString /\ Len(c.AppSecret) < MinAppSecretLen
    THEN "invalid AppSecret"
    ELSE IF ~Recognized(c.Logger.LogLevel) THEN "unknown log level"
    ELSE "none"

\* the most recent call was a default-file generation: DefaultConfig, or
\* InitServiceConfig on a path where no file was
LastGeneration ==
    \/ last.op = "DefaultConfig"
    \/ LastInit /\ ~last.existed

\* C21: default-file generation validates the singleton as it stands before
\* it writes. When the singleton holds a non-empty AppID shorter than 8
\* characters, a non-empty AppSecret shorter than 12 characters or an
\* unrecognized level, DefaultConfig and InitServiceConfig on an absent file
\* return the validation error of the first of these and the disk is as it
\* was: no file is created, and a file DefaultConfig finds at the path is
\* left as it is.
C21_InvalidSingletonWritesNothing ==
    [][(LastGeneration' /\ Invalidity(globalConfig) # "none")
       => /\ last'.err # NilError
          /\ ErrContains(last'.err, Invalidity(globalConfig))
          /\ fs' = fs
          /\ ~exists(fs, Abs(last'.path)) => ~exists(fs', Abs(last'.path))]_vars

\* an earlier load failed on the level TRACE and left it in the singleton;
\* InitServiceConfig on an absent path then fails in the generation and the
\* path is still absent
C21_Witness ==
    /\ LastInit
    /\ ~last.existed
    /\ last.path = PathNewYaml
    /\ globalConfig.Logger.LogLevel = <<"T", "R", "A", "C", "E">>
    /\ ErrContains(last.err, "writing default config")
    /\ ErrContains(last.err, "unknown log level")
    /\ ~exists(fs, PathNewYaml)


\* C22: InitServiceConfig on a path with an unsupported extension where no
\* file is sets ConfigFile and Service to its arguments and generates the
\* default file before it looks at the extension. When the generation
\* succeeds (the singleton passes validation and the file can be created),
\* the call fails with the unsupported-extension error of the reading stage
\* and leaves the new file, holding the singleton it generated, on disk.
C22_UnsupportedPathIsWrittenFirst ==
    [][(/\ LastInit'
        /\ ~last'.existed
        /\ ~SupportedPath(last'.path))
       => /\ globalConfig'.ConfigFile = Abs(last'.path)
          /\ globalConfig'.Service = last'.v
          /\ last'.err # NilError
          /\ (Invalidity(globalConfig) = "none" /\ last'.path \notin NoDirPaths)
             => /\ ErrContains(last'.err, "reading config")
                /\ ErrContains(last'.err, "unsupported config file extension")
                /\ ~exists(fs, Abs(last'.path))
                /\ exists(fs', Abs(last'.path))
                /\ Disk(fs')[Abs(last'.path)] = Encode(globalConfig')
                /\ ValidAppID(globalConfig'.AppID)
                /\ globalConfig'.AppID # EmptyString
                /\ globalConfig'.AppSecret # EmptyString]_vars

\* the first call of the process, on /n.txt: the file is there afterwards,
\* with the generated credentials, and the call has failed on the extension
C22_Witness ==
    /\ LastInit
    /\ ~last.existed
    /\ last.path = PathNewTxt
    /\ calls = 1
    /\ ErrContains(last.err, "unsupported config file extension")
    /\ exists(fs, PathNewTxt)
    /\ IsUUID(globalConfig.AppID)
    /\ Disk(fs)[PathNewTxt].appID = {globalConfig.AppID}
    /\ globalConfig.ConfigFile = PathNewTxt
    /\ globalConfig.Service = CustomPayload

====
